---- MODULE Spec2Model ----
(***************************************************************************)
(* State-machine model of rest_framework_simplejwt/tokens.py: the Token    *)
(* class, BlacklistMixin and the variants AccessToken, RefreshToken and    *)
(* SlidingToken, together with the collaborators they call (the token      *)
(* backend, the clock, uuid4 and the blacklist tables).                    *)
(*                                                                         *)
(* Conventions.                                                            *)
(*   - A datetime is an integer number of clock ticks; an epoch timestamp  *)
(*     is an integer number of seconds; one second is TicksPerSecond ticks.*)
(*   - A timedelta is an integer number of seconds.                        *)
(*   - Python's None and "a value" are <<>> and <<value>>.                 *)
(*   - A 'jti' n >= 1 stands for the n-th value uuid4().hex returned; a    *)
(*     'jti' 0 stands for a string that is no hexadecimal UUID.            *)
(*   - An encoded token is [body, sig]: the serialised claims and the      *)
(*     signature, which names the key it was made with and the body it     *)
(*     was made over.                                                      *)
(***************************************************************************)
EXTENDS Integers, Sequences, FiniteSets, TLC

VARIABLES
    now,        \* the clock read by aware_utcnow(), in ticks
    revocation, \* 'rest_framework_simplejwt.token_blacklist' in INSTALLED_APPS
    blacklist,  \* UUIDs with a BlacklistedToken row
    nextJti,    \* number of the next uuid4() value
    tok,        \* the Token instance the caller holds: <<>> or <<instance>>
    ops,        \* number of payload mutations made so far
    wire,       \* the encoded string last produced by str(token): <<>> or <<w>>
    acc,        \* the AccessToken last returned by RefreshToken.access_token
    res,        \* outcome of the caller's last operation
    outstanding,\* the OutstandingToken rows
    callers     \* two threads, each running cls(token) on the same string

vars == <<now, revocation, blacklist, nextJti, tok, ops, wire, acc, res, outstanding, callers>>

----------------------------------------------------------------------------
(* Resolution of the clock: a datetime is finer than an epoch timestamp *)

TicksPerSecond == 2

(* Bounds of the model: the last clock value, the number of uuid4() values  *)
(* drawn and the number of payload mutations                                *)

MaxTime == 4
MaxJti == 2
MaxOps == 1

(* Configured lifetimes, in seconds (api_settings) *)

ACCESS_TOKEN_LIFETIME == 1
REFRESH_TOKEN_LIFETIME == 2
SLIDING_TOKEN_LIFETIME == 2
SLIDING_TOKEN_REFRESH_LIFETIME == 3

TOKEN_TYPE_CLAIM == "token_type"
SLIDING_TOKEN_REFRESH_EXP_CLAIM == "refresh_exp"
SECRET_KEY == "secret"

----------------------------------------------------------------------------
(* Outcomes of an operation: a return or the exception raised *)

OK == [kind |-> "ok", msg |-> ""]
TokenError(m) == [kind |-> "TokenError", msg |-> m]
ValueError(m) == [kind |-> "ValueError", msg |-> m]
DatabaseError(m) == [kind |-> "DatabaseError", msg |-> m]
KeyError(m) == [kind |-> "KeyError", msg |-> m]

----------------------------------------------------------------------------
(* utils: datetime <-> epoch *)

datetime_to_epoch(dt) == dt \div TicksPerSecond
datetime_from_epoch(ts) == ts * TicksPerSecond
timedelta(seconds) == seconds * TicksPerSecond

----------------------------------------------------------------------------
(* The payload mapping *)

EmptyPayload == [k \in {} |-> 0]
SetItem(payload, key, value) ==
    [k \in (DOMAIN payload) \cup {key} |-> IF k = key THEN value ELSE payload[k]]
DelItem(payload, key) ==
    [k \in (DOMAIN payload) \ {key} |-> payload[k]]

----------------------------------------------------------------------------
(* Token backend: encode / decode of a signed string *)

ClaimOrder == <<"token_type", "exp", "jti", "refresh_exp", "some_value", "user_id">>

RECURSIVE Serialize(_, _)
Serialize(payload, i) ==
    IF i > Len(ClaimOrder) THEN <<>>
    ELSE IF ClaimOrder[i] \in DOMAIN payload
         THEN <<<<ClaimOrder[i], payload[ClaimOrder[i]]>>>> \o Serialize(payload, i + 1)
         ELSE Serialize(payload, i + 1)

Parse(body) ==
    [k \in {body[i][1] : i \in 1..Len(body)} |->
        LET i == CHOOSE j \in 1..Len(body) : body[j][1] = k IN body[i][2]]

Sign(key, body) == [key |-> key, over |-> body]

backend_encode(payload) ==
    LET body == Serialize(payload, 1) IN [body |-> body, sig |-> Sign(SECRET_KEY, body)]

backend_decode(token) ==
    IF token.sig = Sign(SECRET_KEY, token.body)
    THEN [ok |-> TRUE, payload |-> Parse(token.body), reason |-> ""]
    ELSE [ok |-> FALSE, payload |-> EmptyPayload,
          reason |-> IF token.sig.key # SECRET_KEY THEN "wrong key" ELSE "signature mismatch"]

----------------------------------------------------------------------------
(* The token classes *)

Classes == {"AccessToken", "RefreshToken", "SlidingToken"}

(* Subclasses a program can write: Token subclasses with and without a      *)
(* token_type and a lifetime (as in the tests of Token), one whose          *)
(* token_type is '' and whose lifetime is timedelta(0), and a BlacklistMixin *)
(* subclass that sets neither                                               *)
Subclasses == {"MyToken", "MyTestToken", "TypeOnlyToken", "LifetimeOnlyToken", "EmptyToken",
               "BareBlacklistToken"}

token_type(cls) ==
    CASE cls = "AccessToken" -> <<"access">>
      [] cls = "RefreshToken" -> <<"refresh">>
      [] cls = "SlidingToken" -> <<"sliding">>
      [] cls \in {"MyToken", "TypeOnlyToken"} -> <<"test">>
      [] cls = "EmptyToken" -> <<"">>
      [] OTHER -> <<>>

lifetime(cls) ==
    CASE cls = "AccessToken" -> <<ACCESS_TOKEN_LIFETIME>>
      [] cls = "RefreshToken" -> <<REFRESH_TOKEN_LIFETIME>>
      [] cls = "SlidingToken" -> <<SLIDING_TOKEN_LIFETIME>>
      [] cls \in {"MyToken", "LifetimeOnlyToken"} -> <<1>>
      [] cls = "EmptyToken" -> <<0>>
      [] OTHER -> <<>>

HasBlacklistMixin(cls) == cls \in {"RefreshToken", "SlidingToken", "BareBlacklistToken"}

----------------------------------------------------------------------------
(* Token.set_exp and Token.check_exp on a payload *)

set_exp(payload, claim, from_time, life) ==
    SetItem(payload, claim, datetime_to_epoch(from_time + timedelta(life)))

(* claim_time <= current_time *)
has_passed_strict(claim_time, current_time) == claim_time < current_time
has_passed(claim_time, current_time) == claim_time <= current_time

check_exp(payload, claim, current_time) ==
    IF claim \notin DOMAIN payload
    THEN [err |-> TokenError("Token has no '" \o claim \o "' claim"),
          steps |-> <<"exp_present">>]
    ELSE IF has_passed(datetime_from_epoch(payload[claim]), current_time)
    THEN [err |-> TokenError("Token '" \o claim \o "' claim has expired"),
          steps |-> <<"exp_present", "exp_future">>]
    ELSE [err |-> OK, steps |-> <<"exp_present", "exp_future">>]

----------------------------------------------------------------------------
(* Token.__init__ *)

Instance(cls, token, current_time, payload) ==
    [cls |-> cls, token |-> token, current_time |-> current_time, payload |-> payload]

Raised(err, steps) == [err |-> err, inst |-> <<>>, steps |-> steps]
Returned(inst, steps) == [err |-> OK, inst |-> <<inst>>, steps |-> steps]

(* except TokenBackendError: raise TokenError(...) *)
backend_error_verbatim(reason) == TokenError(reason)
backend_error(reason) == TokenError("Token is invalid or expired")

(* Ensure token type claim is present and has correct value *)
check_type_presence_only(cls, payload) ==
    IF TOKEN_TYPE_CLAIM \notin DOMAIN payload
    THEN [err |-> TokenError("Token has no type"), steps |-> <<"type_present">>]
    ELSE [err |-> OK, steps |-> <<"type_present", "type_equal">>]
check_type_by_get(cls, payload) ==
    IF TOKEN_TYPE_CLAIM \notin DOMAIN payload
       \/ token_type(cls)[1] # payload[TOKEN_TYPE_CLAIM]
    THEN [err |-> TokenError("Token has wrong type"),
          steps |-> <<"type_present", "type_equal">>]
    ELSE [err |-> OK, steps |-> <<"type_present", "type_equal">>]
check_type(cls, payload) ==
    IF TOKEN_TYPE_CLAIM \notin DOMAIN payload
    THEN [err |-> TokenError("Token has no type"), steps |-> <<"type_present">>]
    ELSE IF token_type(cls)[1] # payload[TOKEN_TYPE_CLAIM]
    THEN [err |-> TokenError("Token has wrong type"),
          steps |-> <<"type_present", "type_equal">>]
    ELSE [err |-> OK, steps |-> <<"type_present", "type_equal">>]

(* the token id is not looked for *)
check_id_skipped(payload) == [err |-> OK, steps |-> <<"jti_present">>]

(* Ensure token id is present *)
check_id(payload) ==
    IF "jti" \notin DOMAIN payload
    THEN [err |-> TokenError("Token has no id"), steps |-> <<"jti_present">>]
    ELSE [err |-> OK, steps |-> <<"jti_present">>]

(* the type is checked before the expiry *)
TokenInitDecode_type_first(cls, token, t) ==
    LET d == backend_decode(token[1])
        p == d.payload
        e == check_exp(p, "exp", t)
        y == check_type(cls, p)
        j == check_id(p)
        s1 == <<"config", "time", "backend">>
    IN  IF ~d.ok
        THEN Raised(backend_error(d.reason), s1)
        ELSE IF y.err # OK
        THEN Raised(y.err, s1 \o y.steps)
        ELSE IF e.err # OK
        THEN Raised(e.err, s1 \o y.steps \o e.steps)
        ELSE IF j.err # OK
        THEN Raised(j.err, s1 \o y.steps \o e.steps \o j.steps)
        ELSE Returned(Instance(cls, token, t, p), s1 \o y.steps \o e.steps \o j.steps)
TokenInitDecode(cls, token, t) ==
    LET d == backend_decode(token[1])
        p == d.payload
        e == check_exp(p, "exp", t)
        y == check_type(cls, p)
        j == check_id(p)
        s1 == <<"config", "time", "backend">>
    IN  IF ~d.ok
        THEN Raised(backend_error(d.reason), s1)
        ELSE IF e.err # OK
        THEN Raised(e.err, s1 \o e.steps)
        ELSE IF y.err # OK
        THEN Raised(y.err, s1 \o e.steps \o y.steps)
        ELSE IF j.err # OK
        THEN Raised(j.err, s1 \o e.steps \o y.steps \o j.steps)
        ELSE Returned(Instance(cls, token, t, p), s1 \o e.steps \o y.steps \o j.steps)

(* a new token on which set_exp was left out *)
TokenInitFresh_no_exp(cls, t, uuid) ==
    Returned(Instance(cls, <<>>, t,
                      SetItem(SetItem(EmptyPayload, TOKEN_TYPE_CLAIM, token_type(cls)[1]),
                              "jti", uuid)),
             <<"config", "time", "fresh">>)
TokenInitFresh(cls, t, uuid) ==
    LET p0 == SetItem(SetItem(EmptyPayload, TOKEN_TYPE_CLAIM, token_type(cls)[1]),
                      "jti", uuid)
    IN  Returned(Instance(cls, <<>>, t, set_exp(p0, "exp", t, lifetime(cls)[1])),
                 <<"config", "time", "fresh">>)

(* the class attributes are looked at after the backend has decoded *)
TokenInit_config_last(cls, token, t, uuid) ==
    IF token # <<>> /\ ~backend_decode(token[1]).ok
    THEN Raised(backend_error(backend_decode(token[1]).reason), <<"config", "time", "backend">>)
    ELSE IF token_type(cls) = <<>> \/ lifetime(cls) = <<>>
    THEN Raised(TokenError("Cannot create token with no type or lifetime"), <<"config">>)
    ELSE IF token # <<>>
    THEN TokenInitDecode(cls, token, t)
    ELSE TokenInitFresh(cls, t, uuid)
TokenInit(cls, token, t, uuid) ==
    IF token_type(cls) = <<>> \/ lifetime(cls) = <<>>
    THEN Raised(TokenError("Cannot create token with no type or lifetime"), <<"config">>)
    ELSE IF token # <<>>
    THEN TokenInitDecode(cls, token, t)
    ELSE TokenInitFresh(cls, t, uuid)

----------------------------------------------------------------------------
(* BlacklistMixin: __init__ and check_blacklist (defined only when the      *)
(* token_blacklist app is installed)                                        *)

UUID(hex) ==
    IF hex >= 1
    THEN [ok |-> TRUE, uuid |-> hex]
    ELSE [ok |-> FALSE, uuid |-> 0]

(* a lookup that cannot be answered counts as 'no row' *)
check_blacklist_swallowing(payload, bl, up) ==
    LET jti == UUID(payload["jti"])
    IN  IF ~jti.ok
        THEN ValueError("badly formed hexadecimal UUID string")
        ELSE IF up /\ jti.uuid \in bl
        THEN TokenError("Token is blacklisted")
        ELSE OK
check_blacklist(payload, bl, up) ==
    LET jti == UUID(payload["jti"])
    IN  IF ~jti.ok
        THEN ValueError("badly formed hexadecimal UUID string")
        ELSE IF ~up
        THEN DatabaseError("blacklist lookup failed")
        ELSE IF jti.uuid \in bl
        THEN TokenError("Token is blacklisted")
        ELSE OK

BlacklistMixinInit_unchecked(cls, token, t, uuid, rev, bl, up) ==
    TokenInit(cls, token, t, uuid)
BlacklistMixinInit(cls, token, t, uuid, rev, bl, up) ==
    LET r == TokenInit(cls, token, t, uuid)
        b == check_blacklist(r.inst[1].payload, bl, up)
    IN  IF ~rev \/ r.err # OK \/ token = <<>>
        THEN r
        ELSE IF b # OK
        THEN Raised(b, r.steps \o <<"check_blacklist">>)
        ELSE Returned(r.inst[1], r.steps \o <<"check_blacklist">>)

(* SlidingToken.__init__ *)

SlidingTokenInit_restamp(cls, token, t, uuid, rev, bl, up) ==
    LET r == BlacklistMixinInit(cls, token, t, uuid, rev, bl, up)
        i == r.inst[1]
    IN  IF r.err # OK
        THEN r
        ELSE Returned(
                 [i EXCEPT !.payload =
                     set_exp(i.payload, SLIDING_TOKEN_REFRESH_EXP_CLAIM, i.current_time,
                             SLIDING_TOKEN_REFRESH_LIFETIME)],
                 r.steps)
SlidingTokenInit(cls, token, t, uuid, rev, bl, up) ==
    LET r == BlacklistMixinInit(cls, token, t, uuid, rev, bl, up)
        i == r.inst[1]
    IN  IF r.err # OK \/ token # <<>>
        THEN r
        ELSE Returned(
                 [i EXCEPT !.payload =
                     set_exp(i.payload, SLIDING_TOKEN_REFRESH_EXP_CLAIM, i.current_time,
                             SLIDING_TOKEN_REFRESH_LIFETIME)],
                 r.steps)

(* cls(token): the constructor the class resolves to *)

(* every class takes BlacklistMixin.__init__ *)
New_blacklist_for_all(cls, token, t, uuid, rev, bl, up) ==
    IF cls = "SlidingToken"
    THEN SlidingTokenInit(cls, token, t, uuid, rev, bl, up)
    ELSE BlacklistMixinInit(cls, token, t, uuid, rev, bl, up)
New(cls, token, t, uuid, rev, bl, up) ==
    IF cls = "SlidingToken"
    THEN SlidingTokenInit(cls, token, t, uuid, rev, bl, up)
    ELSE IF HasBlacklistMixin(cls)
    THEN BlacklistMixinInit(cls, token, t, uuid, rev, bl, up)
    ELSE TokenInit(cls, token, t, uuid)

----------------------------------------------------------------------------
(* What a client can present: the string it was given, the same claims     *)
(* signed with another key, or altered claims under the old signature       *)

Forged(w) == [body |-> w.body, sig |-> Sign("attacker", w.body)]
Altered(w) ==
    [body |-> Serialize(SetItem(Parse(w.body), "exp", datetime_to_epoch(MaxTime) + 1), 1),
     sig |-> w.sig]
Presented(w) == {w, Forged(w), Altered(w)}

Result(op, args, err, steps) == [op |-> op, args |-> args, err |-> err, steps |-> steps]

----------------------------------------------------------------------------
(* RefreshToken.access_token *)

no_copy_claims_without_jti == {TOKEN_TYPE_CLAIM, "exp"}
no_copy_claims == {TOKEN_TYPE_CLAIM, "exp", "jti"}

RECURSIVE CopyClaims(_, _, _)
CopyClaims(target, source, i) ==
    IF i > Len(ClaimOrder) THEN target
    ELSE IF ClaimOrder[i] \in DOMAIN source /\ ClaimOrder[i] \notin no_copy_claims
         THEN CopyClaims(SetItem(target, ClaimOrder[i], source[ClaimOrder[i]]), source, i + 1)
         ELSE CopyClaims(target, source, i + 1)

access_token_own_time(self, t, uuid) ==
    LET access == TokenInit("AccessToken", <<>>, t, uuid).inst[1]
    IN  [access EXCEPT !.payload = CopyClaims(access.payload, self.payload, 1)]
access_token(self, t, uuid) ==
    LET access == TokenInit("AccessToken", <<>>, t, uuid).inst[1]
        stamped == set_exp(access.payload, "exp", self.current_time, lifetime(access.cls)[1])
    IN  [access EXCEPT !.payload = CopyClaims(stamped, self.payload, 1)]

----------------------------------------------------------------------------
(* Token.for_user and BlacklistMixin.for_user                               *)
(* A value of a user's id field is [type, repr]: its Python type and its    *)
(* text; text_type(v) is the str with that text.                            *)

USER_ID_CLAIM == "user_id"
Users == {"u42", "alice", "uuid_pk"}

(* getattr(user, api_settings.USER_ID_FIELD) *)
user_id_field(user) ==
    CASE user = "u42" -> [type |-> "int", repr |-> "42"]
      [] user = "alice" -> [type |-> "str", repr |-> "alice"]
      [] OTHER -> [type |-> "UUID", repr |-> "c0ffee"]

text_type(v) == [type |-> "str", repr |-> v.repr]

user_id_always_text(v) == text_type(v)
user_id_claim(v) == IF v.type = "int" THEN v ELSE text_type(v)

Issued(err, inst, rows, steps) == [err |-> err, inst |-> inst, rows |-> rows, steps |-> steps]

Token_for_user(cls, user, t, uuid, rev, bl) ==
    LET token == New(cls, <<>>, t, uuid, rev, bl, TRUE).inst[1]
    IN  [token EXCEPT !.payload = SetItem(@, USER_ID_CLAIM, user_id_claim(user_id_field(user)))]

OutstandingRow(user, token) ==
    [user |-> user,
     jti |-> UUID(token.payload["jti"]).uuid,
     token |-> backend_encode(token.payload),
     created_at |-> token.current_time,
     expires_at |-> datetime_from_epoch(token.payload["exp"])]

(* the row is left out *)
BlacklistMixin_for_user_unrecorded(cls, user, t, uuid, rev, bl, up) ==
    Issued(OK, <<Token_for_user(cls, user, t, uuid, rev, bl)>>, {}, <<"cls", "user_id">>)
BlacklistMixin_for_user(cls, user, t, uuid, rev, bl, up) ==
    LET token == Token_for_user(cls, user, t, uuid, rev, bl)
    IN  IF ~rev
        THEN Issued(OK, <<token>>, {}, <<"cls", "user_id">>)
        ELSE IF ~up
        THEN Issued(DatabaseError("outstanding token not recorded"), <<>>, {},
                    <<"cls", "user_id", "create">>)
        ELSE Issued(OK, <<token>>, {OutstandingRow(user, token)},
                    <<"cls", "user_id", "create">>)

(* cls.for_user(user): the method the class resolves to *)
for_user(cls, user, t, uuid, rev, bl, up) ==
    IF HasBlacklistMixin(cls)
    THEN BlacklistMixin_for_user(cls, user, t, uuid, rev, bl, up)
    ELSE Issued(OK, <<Token_for_user(cls, user, t, uuid, rev, bl)>>, {}, <<"cls", "user_id">>)

----------------------------------------------------------------------------
Init ==
    /\ now = 0
    /\ revocation \in BOOLEAN
    /\ blacklist = {}
    /\ nextJti = 1
    /\ tok = <<>>
    /\ ops = 0
    /\ wire = <<>>
    /\ acc = <<>>
    /\ res = Result("none", <<>>, OK, <<>>)
    /\ outstanding = {}
    /\ callers = <<>>

(* The clock is read by aware_utcnow() only; `now` is its value at the most  *)
(* recent read, and each operation that reads it is given the time d that   *)
(* has gone by since.                                                       *)
Elapsed == 0..(MaxTime - now)

(* A BlacklistedToken row is created for an issued jti *)
BlacklistAdd(j) ==
    /\ revocation
    /\ j < nextJti
    /\ j \notin blacklist
    /\ blacklist' = blacklist \cup {j}
    /\ UNCHANGED <<now, revocation, nextJti, tok, ops, wire, acc, res>>
    /\ UNCHANGED <<outstanding, callers>>

(* cls() *)
ConstructFresh(cls, d) ==
    /\ tok = <<>>
    /\ wire = <<>>
    /\ nextJti <= MaxJti
    /\ now' = now + d
    /\ \E r \in {New(cls, <<>>, now + d, nextJti, revocation, blacklist, TRUE)} :
           /\ tok' = r.inst
           /\ res' = Result("construct", <<cls>>, r.err, r.steps)
           /\ nextJti' = IF "fresh" \in {r.steps[i] : i \in 1..Len(r.steps)}
                         THEN nextJti + 1 ELSE nextJti
    /\ acc' = <<>>
    /\ UNCHANGED <<revocation, blacklist, ops, wire>>
    /\ UNCHANGED <<outstanding, callers>>

(* cls(token); up: whether the database answers the blacklist lookup *)
ConstructDecode(cls, token, up, d) ==
    /\ now' = now + d
    /\ \E r \in {New(cls, <<token>>, now + d, nextJti, revocation, blacklist, up)} :
           /\ tok' = r.inst
           /\ res' = Result("decode", <<cls, token>>, r.err, r.steps)
    /\ acc' = <<>>
    /\ UNCHANGED <<revocation, blacklist, nextJti, ops, wire>>
    /\ UNCHANGED <<outstanding, callers>>

(* The payload is mutated by the code that builds a token, before it is     *)
(* encoded; an instance made from a string is only read.                   *)
Mutable == tok # <<>> /\ tok[1].token = <<>> /\ ops < MaxOps

(* token[key] = value *)
SetItemOp(key, value) ==
    /\ Mutable
    /\ tok' = <<[tok[1] EXCEPT !.payload = SetItem(@, key, value)]>>
    /\ ops' = ops + 1
    /\ res' = Result("setitem", <<key>>, OK, <<>>)
    /\ acc' = <<>>
    /\ UNCHANGED <<now, revocation, blacklist, nextJti, wire>>
    /\ UNCHANGED <<outstanding, callers>>

(* del token[key] *)
DelItemOp(key) ==
    /\ Mutable
    /\ IF key \in DOMAIN tok[1].payload
       THEN /\ tok' = <<[tok[1] EXCEPT !.payload = DelItem(@, key)]>>
            /\ res' = Result("delitem", <<key>>, OK, <<>>)
       ELSE /\ tok' = tok
            /\ res' = Result("delitem", <<key>>, KeyError(key), <<>>)
    /\ ops' = ops + 1
    /\ acc' = <<>>
    /\ UNCHANGED <<now, revocation, blacklist, nextJti, wire>>
    /\ UNCHANGED <<outstanding, callers>>

(* token.set_exp(claim, lifetime=life): life = <<>> is the default *)
SetExpOp(claim, life) ==
    /\ Mutable
    /\ LET i == tok[1]
           l == IF life = <<>> THEN lifetime(i.cls)[1] ELSE life[1]
       IN  tok' = <<[i EXCEPT !.payload = set_exp(@, claim, i.current_time, l)]>>
    /\ ops' = ops + 1
    /\ res' = Result("set_exp", <<claim>>, OK, <<>>)
    /\ acc' = <<>>
    /\ UNCHANGED <<now, revocation, blacklist, nextJti, wire>>
    /\ UNCHANGED <<outstanding, callers>>

(* refresh.access_token written on the RefreshToken's own payload *)
AccessTokenOp_in_place(d) ==
    /\ tok # <<>>
    /\ tok[1].cls = "RefreshToken"
    /\ nextJti <= MaxJti
    /\ now' = now + d
    /\ acc' = <<access_token(tok[1], now + d, nextJti)>>
    /\ tok' = <<[tok[1] EXCEPT !.payload = acc'[1].payload]>>
    /\ nextJti' = nextJti + 1
    /\ res' = Result("access_token", <<>>, OK, <<>>)
    /\ UNCHANGED <<revocation, blacklist, ops, wire>>
    /\ UNCHANGED <<outstanding, callers>>

(* refresh.access_token *)
AccessTokenOp(d) ==
    /\ tok # <<>>
    /\ tok[1].cls = "RefreshToken"
    /\ nextJti <= MaxJti
    /\ now' = now + d
    /\ acc' = <<access_token(tok[1], now + d, nextJti)>>
    /\ nextJti' = nextJti + 1
    /\ res' = Result("access_token", <<>>, OK, <<>>)
    /\ UNCHANGED <<revocation, blacklist, tok, ops, wire>>
    /\ UNCHANGED <<outstanding, callers>>

(* str(token), of the held token or of the derived access token: the string *)
(* goes to the client and the instances are dropped; src remembers what was *)
(* signed                                                                   *)
StrOp(which) ==
    /\ which # <<>>
    /\ wire' = <<[str |-> backend_encode(which[1].payload), src |-> which[1].payload,
                  cls |-> which[1].cls]>>
    /\ tok' = <<>>
    /\ acc' = <<>>
    /\ res' = Result("str", <<>>, OK, <<>>)
    /\ UNCHANGED <<now, revocation, blacklist, nextJti, ops>>
    /\ UNCHANGED <<outstanding, callers>>

(* token.check_exp(claim, current_time): <<>> is an argument left out *)
CheckExpOp(claim, at) ==
    /\ tok # <<>>
    /\ LET i == tok[1]
           c == check_exp(i.payload, IF claim = <<>> THEN "exp" ELSE claim[1],
                          IF at = <<>> THEN i.current_time ELSE at[1])
       IN  res' = Result("check_exp", <<claim, at>>, c.err, c.steps)
    /\ UNCHANGED <<now, revocation, blacklist, nextJti, tok, ops, wire, acc>>
    /\ UNCHANGED <<outstanding, callers>>

SetItemArgs == {<<"some_value", "arst">>, <<"jti", 0>>, <<TOKEN_TYPE_CLAIM, "access">>}
DelItemArgs == {"exp", TOKEN_TYPE_CLAIM, "jti"}
SetExpArgs == {<<"exp", <<-1>>>>}
Strings == IF wire = <<>> THEN {} ELSE Presented(wire[1].str)
LedgerAnswers(cls) == IF revocation /\ HasBlacklistMixin(cls) THEN BOOLEAN ELSE {TRUE}

Next ==
    \/ \E j \in 1..MaxJti : BlacklistAdd(j)
    \/ \E cls \in Classes : \E d \in Elapsed : ConstructFresh(cls, d)
    \/ \E cls \in Classes : \E s \in Strings : \E up \in LedgerAnswers(cls) : \E d \in Elapsed :
           ConstructDecode(cls, s, up, d)
    \/ \E kv \in SetItemArgs : SetItemOp(kv[1], kv[2])
    \/ \E key \in DelItemArgs : DelItemOp(key)
    \/ \E a \in SetExpArgs : SetExpOp(a[1], a[2])
    \/ \E d \in Elapsed : AccessTokenOp(d)
    \/ StrOp(tok)
    \/ StrOp(acc)

Spec == Init /\ [][Next]_vars

(* check_exp on its own: tokens are built, their expiry claims stamped or   *)
(* removed, and check_exp is called with every choice of its arguments      *)
CheckExpClaims == {<<>>, <<"exp">>, <<SLIDING_TOKEN_REFRESH_EXP_CLAIM>>}
CheckExpTimes == {<<>>} \cup {<<t>> : t \in 0..MaxTime}
CheckExpLifetimes == {<<>>} \cup {<<l>> : l \in (0 - 1)..1}

NextCheckExp ==
    \/ \E cls \in Classes : \E d \in Elapsed : ConstructFresh(cls, d)
    \/ \E claim \in {"exp", SLIDING_TOKEN_REFRESH_EXP_CLAIM} : \E life \in CheckExpLifetimes :
           SetExpOp(claim, life)
    \/ DelItemOp("exp")
    \/ \E claim \in CheckExpClaims : \E at \in CheckExpTimes : CheckExpOp(claim, at)

SpecCheckExp == Init /\ [][NextCheckExp]_vars

(* cls.for_user(user); up: whether the database accepts the new row *)
ForUserOp(cls, user, up, d) ==
    /\ tok = <<>>
    /\ wire = <<>>
    /\ nextJti <= MaxJti
    /\ now' = now + d
    /\ \E r \in {for_user(cls, user, now + d, nextJti, revocation, blacklist, up)} :
           /\ tok' = r.inst
           /\ outstanding' = outstanding \cup r.rows
           /\ res' = Result("for_user", <<cls, user, up>>, r.err, r.steps)
    /\ nextJti' = nextJti + 1
    /\ acc' = <<>>
    /\ UNCHANGED <<revocation, blacklist, ops, wire, callers>>

(* issuing for a user: the token is issued, may be given a claim more, is   *)
(* encoded and comes back from the client                                  *)
NextForUser ==
    \/ \E cls \in Classes : \E user \in Users : \E up \in LedgerAnswers(cls) : \E d \in Elapsed :
           ForUserOp(cls, user, up, d)
    \/ \E kv \in SetItemArgs : SetItemOp(kv[1], kv[2])
    \/ StrOp(tok)
    \/ \E cls \in Classes : \E s \in Strings : \E up \in LedgerAnswers(cls) : \E d \in Elapsed :
           ConstructDecode(cls, s, up, d)

SpecForUser == Init /\ [][NextForUser]_vars

(* Two threads run cls(token) on the same string, statement by statement:   *)
(* lines 32-36 read the clock, lines 39-66 decode and validate, and lines   *)
(* 159-173 (BlacklistMixin, app installed) look the jti up. The clock and  *)
(* the blacklist move between their statements.                            *)

Threads == {1, 2}

(* if current_time is None: current_time = self.current_time *)
default_current_time_reread(self_current_time, clock) == clock
default_current_time(self_current_time, clock) == self_current_time

Spawn(cls, s) ==
    /\ callers = <<>>
    /\ callers' = [c \in Threads |->
                      [pc |-> "init", cls |-> cls, token |-> s, current_time |-> <<>>,
                       payload |-> <<>>, seen |-> <<>>, err |-> <<>>]]
    /\ UNCHANGED <<now, revocation, blacklist, nextJti, tok, ops, wire, acc, res, outstanding>>

Tick ==
    /\ now < MaxTime
    /\ callers # <<>>
    /\ now' = now + 1
    /\ UNCHANGED <<revocation, blacklist, nextJti, tok, ops, wire, acc, res, outstanding, callers>>

(* self.token = token; self.current_time = aware_utcnow() *)
CallerInit(c) ==
    /\ callers # <<>>
    /\ callers[c].pc = "init"
    /\ callers' = [callers EXCEPT ![c].pc = "decode", ![c].current_time = <<now>>]
    /\ UNCHANGED <<now, revocation, blacklist, nextJti, tok, ops, wire, acc, res, outstanding>>

(* the backend decode and the checks of exp, type and jti *)
CallerValidate(c) ==
    /\ callers # <<>>
    /\ callers[c].pc = "decode"
    /\ LET self == callers[c]
           r == TokenInitDecode(self.cls, <<self.token>>,
                                default_current_time(self.current_time[1], now))
       IN  callers' =
               IF r.err # OK
               THEN [callers EXCEPT ![c].pc = "done", ![c].err = <<r.err>>]
               ELSE IF revocation /\ HasBlacklistMixin(self.cls)
               THEN [callers EXCEPT ![c].pc = "check_blacklist",
                                    ![c].payload = <<r.inst[1].payload>>]
               ELSE [callers EXCEPT ![c].pc = "done", ![c].payload = <<r.inst[1].payload>>,
                                    ![c].err = <<OK>>]
    /\ UNCHANGED <<now, revocation, blacklist, nextJti, tok, ops, wire, acc, res, outstanding>>

(* self.check_blacklist(); seen: what the lookup was answered from *)
CallerCheckBlacklist(c, up) ==
    /\ callers # <<>>
    /\ callers[c].pc = "check_blacklist"
    /\ callers' = [callers EXCEPT
                      ![c].pc = "done",
                      ![c].seen = <<[blacklist |-> blacklist, up |-> up]>>,
                      ![c].err = <<check_blacklist(callers[c].payload[1], blacklist, up)>>]
    /\ UNCHANGED <<now, revocation, blacklist, nextJti, tok, ops, wire, acc, res, outstanding>>

NextConcurrent ==
    \/ \E cls \in Classes : ConstructFresh(cls, 0)
    \/ StrOp(tok)
    \/ \E cls \in Classes : \E s \in Strings : Spawn(cls, s)
    \/ Tick
    \/ \E j \in 1..MaxJti : BlacklistAdd(j)
    \/ \E c \in Threads : CallerInit(c)
    \/ \E c \in Threads : CallerValidate(c)
    \/ \E c \in Threads : \E up \in BOOLEAN : CallerCheckBlacklist(c, up)

SpecConcurrent == Init /\ [][NextConcurrent]_vars

(* construction by any subclass: a new token of each, and each given the    *)
(* string of a token some class made                                        *)
NextConfig ==
    \/ \E cls \in Classes \cup Subclasses : \E d \in Elapsed : ConstructFresh(cls, d)
    \/ StrOp(tok)
    \/ \E cls \in Classes \cup Subclasses : \E s \in Strings : \E up \in LedgerAnswers(cls) :
           \E d \in Elapsed : ConstructDecode(cls, s, up, d)

SpecConfig == Init /\ [][NextConfig]_vars

----------------------------------------------------------------------------
(* Vocabulary of the properties: what an encoded string carries, read off  *)
(* the string itself                                                        *)

Tag == [AccessToken |-> "access", RefreshToken |-> "refresh", SlidingToken |-> "sliding"]
RevocationAware == {"RefreshToken", "SlidingToken"}

SignatureValid(s) == s.sig.key = SECRET_KEY /\ s.sig.over = s.body
Carries(s, k) == \E i \in 1..Len(s.body) : s.body[i][1] = k
ValueOf(s, k) == s.body[CHOOSE i \in 1..Len(s.body) : s.body[i][1] = k][2]
InFuture(epoch, t) == epoch * TicksPerSecond > t

(* the four conditions of a decoded token, for class cls at clock value t *)
Trustworthy(s, cls, t) ==
    /\ SignatureValid(s)
    /\ Carries(s, "exp") /\ InFuture(ValueOf(s, "exp"), t)
    /\ Carries(s, TOKEN_TYPE_CLAIM) /\ ValueOf(s, TOKEN_TYPE_CLAIM) = Tag[cls]
    /\ Carries(s, "jti")

----------------------------------------------------------------------------
(* C1: whenever cls(token) returns an instance, the backend accepted the   *)
(* string and the payload has an 'exp' strictly after the captured          *)
(* current_time, a type claim equal to the class's tag and a 'jti'; when    *)
(* any of the four fails the call raises and no instance is returned.       *)

C1_DecodedTokenIsTrustworthy ==
    res.op = "decode" =>
        LET cls == res.args[1]
            s == res.args[2]
        IN  /\ tok # <<>> =>
                  /\ res.err = OK
                  /\ Trustworthy(s, cls, now)
                  /\ tok[1].current_time = now
                  /\ tok[1].token = <<s>>
                  /\ "exp" \in DOMAIN tok[1].payload
                  /\ InFuture(tok[1].payload["exp"], tok[1].current_time)
                  /\ TOKEN_TYPE_CLAIM \in DOMAIN tok[1].payload
                  /\ tok[1].payload[TOKEN_TYPE_CLAIM] = Tag[cls]
                  /\ "jti" \in DOMAIN tok[1].payload
            /\ ~Trustworthy(s, cls, now) => tok = <<>> /\ res.err # OK

C1_Witness ==
    /\ res.op = "decode"
    /\ tok # <<>>
    /\ tok[1].cls = "SlidingToken"
    /\ tok[1].current_time > 0

----------------------------------------------------------------------------
(* C2: a validly signed, unexpired string whose type claim is the tag of    *)
(* another class is refused with 'Token has wrong type' by every class.     *)

TypeConfused(s, cls, t) ==
    /\ SignatureValid(s)
    /\ Carries(s, "exp") /\ InFuture(ValueOf(s, "exp"), t)
    /\ Carries(s, TOKEN_TYPE_CLAIM)
    /\ \E other \in Classes \ {cls} : ValueOf(s, TOKEN_TYPE_CLAIM) = Tag[other]

C2_OtherVariantIsWrongType ==
    (res.op = "decode" /\ TypeConfused(res.args[2], res.args[1], now)) =>
        tok = <<>> /\ res.err = TokenError("Token has wrong type")

C2_Witness ==
    /\ res.op = "decode"
    /\ res.args[1] = "RefreshToken"
    /\ TypeConfused(res.args[2], "RefreshToken", now)
    /\ ValueOf(res.args[2], TOKEN_TYPE_CLAIM) = "access"
    /\ res.err = TokenError("Token has wrong type")

----------------------------------------------------------------------------
(* C3: check_exp raises TokenError when the claim is absent or its time is  *)
(* at or before the reference time, and returns when it is after; the       *)
(* claim defaults to 'exp' and the reference time to current_time.          *)

C3_CheckExpIsStrict ==
    res.op = "check_exp" =>
        LET claim == IF res.args[1] = <<>> THEN "exp" ELSE res.args[1][1]
            t == IF res.args[2] = <<>> THEN tok[1].current_time ELSE res.args[2][1]
            p == tok[1].payload
        IN  IF claim \notin DOMAIN p
            THEN res.err.kind = "TokenError"
            ELSE /\ p[claim] * TicksPerSecond <= t => res.err.kind = "TokenError"
                 /\ p[claim] * TicksPerSecond > t => res.err = OK

C3_Witness ==
    /\ res.op = "check_exp"
    /\ res.args = <<<<>>, <<>>>>
    /\ "exp" \in DOMAIN tok[1].payload
    /\ tok[1].payload["exp"] * TicksPerSecond = tok[1].current_time
    /\ res.err.kind = "TokenError"

----------------------------------------------------------------------------
(* C4: with the blacklist app installed, RefreshToken(token) and            *)
(* SlidingToken(token) return nothing for a string whose jti has a          *)
(* blacklist row when the call is made, though signature, exp, type and jti *)
(* all pass; the error is 'Token is blacklisted' whenever the lookup        *)
(* answers. Rows are never removed, so this holds of every later call.      *)

Blacklisted(s, cls, t, bl) ==
    /\ cls \in RevocationAware
    /\ Trustworthy(s, cls, t)
    /\ ValueOf(s, "jti") \in bl

C4_BlacklistedIsRefused ==
    [][/\ blacklist \subseteq blacklist'
       /\ (/\ res'.op = "decode"
           /\ blacklist' = blacklist
           /\ revocation
           /\ Blacklisted(res'.args[2], res'.args[1], now', blacklist))
          => \A up \in BOOLEAN :
                 ConstructDecode(res'.args[1], res'.args[2], up, now' - now) =>
                     /\ tok' = <<>>
                     /\ res'.err # OK
                     /\ up => res'.err = TokenError("Token is blacklisted")]_vars

C4_Witness ==
    /\ res.op = "decode"
    /\ revocation
    /\ Blacklisted(res.args[2], res.args[1], now, blacklist)
    /\ res.err = TokenError("Token is blacklisted")
    /\ res.steps[Len(res.steps)] = "check_blacklist"

----------------------------------------------------------------------------
(* C5: a string the backend rejects is refused with 'Token is invalid or    *)
(* expired', whatever the backend's reason, and nothing after the backend   *)
(* call is run.                                                             *)

C5_BackendFailureIsOpaque ==
    (res.op = "decode" /\ ~SignatureValid(res.args[2])) =>
        /\ tok = <<>>
        /\ res.err = TokenError("Token is invalid or expired")
        /\ res.steps = <<"config", "time", "backend">>

C5_Witness ==
    /\ res.op = "decode"
    /\ ~SignatureValid(res.args[2])
    /\ res.args[2].sig.key = SECRET_KEY
    /\ res.args[1] = "RefreshToken"
    /\ revocation

----------------------------------------------------------------------------
(* C6: cls(token) either returns or raises TokenError, the one exception    *)
(* being a failure of the blacklist tables themselves.                      *)

C6_OnlyTokenErrors ==
    (res.op = "decode" /\ res.err # OK) => res.err.kind \in {"TokenError", "DatabaseError"}

----------------------------------------------------------------------------
(* C7: a string that lacks exactly one of 'exp', the type claim and 'jti',  *)
(* and is otherwise good for the class, is refused with the error of the    *)
(* missing claim.                                                           *)

Required == {"exp", TOKEN_TYPE_CLAIM, "jti"}
Missing(s) == {k \in Required : ~Carries(s, k)}
OtherwiseGood(s, cls, t) ==
    /\ SignatureValid(s)
    /\ Carries(s, "exp") => InFuture(ValueOf(s, "exp"), t)
    /\ Carries(s, TOKEN_TYPE_CLAIM) => ValueOf(s, TOKEN_TYPE_CLAIM) = Tag[cls]
MissingError(k) ==
    CASE k = "exp" -> TokenError("Token has no 'exp' claim")
      [] k = TOKEN_TYPE_CLAIM -> TokenError("Token has no type")
      [] k = "jti" -> TokenError("Token has no id")

C7_MissingClaimHasItsOwnError ==
    (/\ res.op = "decode"
     /\ OtherwiseGood(res.args[2], res.args[1], now)
     /\ Cardinality(Missing(res.args[2])) = 1) =>
        /\ tok = <<>>
        /\ \A k \in Missing(res.args[2]) : res.err = MissingError(k)

C7_Witness ==
    /\ res.op = "decode"
    /\ OtherwiseGood(res.args[2], res.args[1], now)
    /\ Missing(res.args[2]) = {TOKEN_TYPE_CLAIM}
    /\ res.err = TokenError("Token has no type")

----------------------------------------------------------------------------
(* C8: str(token) given back to the class of the token yields an instance   *)
(* whose payload is the payload that was encoded, claim for claim           *)
(* (a SlidingToken's refresh_exp and the caller's own claims included); the *)
(* call returns whenever the encoded payload is good for the class, its jti *)
(* has no blacklist row and the blacklist lookup answers.                   *)

RoundTrip == res.op = "decode" /\ res.args[2] = wire[1].str /\ res.args[1] = wire[1].cls

----------------------------------------------------------------------------
(* C9: the access token of a RefreshToken whose current_time is T has       *)
(* 'exp' = T + ACCESS_TOKEN_LIFETIME (as an epoch timestamp), whatever the  *)
(* time at which access_token is read.                                      *)

ExpFrom(t, life) == (t + life * TicksPerSecond) \div TicksPerSecond

C9_AccessExpFromRefreshTime ==
    res.op = "access_token" =>
        /\ acc[1].current_time = now
        /\ acc[1].payload["exp"] = ExpFrom(tok[1].current_time, ACCESS_TOKEN_LIFETIME)

C9_Witness ==
    /\ res.op = "access_token"
    /\ now > tok[1].current_time
    /\ acc[1].payload["exp"] # ExpFrom(now, ACCESS_TOKEN_LIFETIME)

----------------------------------------------------------------------------
(* C10: every claim of the RefreshToken's payload other than the type       *)
(* claim, 'exp' and 'jti' is on the access token with the same value ...    *)

Copied ==
    \A k \in (DOMAIN tok[1].payload) \ {TOKEN_TYPE_CLAIM, "exp", "jti"} :
        k \in DOMAIN acc[1].payload /\ acc[1].payload[k] = tok[1].payload[k]
Differs(k) ==
    /\ k \in DOMAIN acc[1].payload
    /\ k \in DOMAIN tok[1].payload => acc[1].payload[k] # tok[1].payload[k]

(* ... and, as claimed, its 'jti', 'exp' and type claim each differ from    *)
(* the RefreshToken's                                                       *)
C10_DerivedClaimsAllDiffer ==
    res.op = "access_token" =>
        Copied /\ Differs("jti") /\ Differs("exp") /\ Differs(TOKEN_TYPE_CLAIM)

(* ... and, as amended: its type claim is 'access', which differs from the  *)
(* RefreshToken's while that one reads 'refresh'; its 'jti' is newly made   *)
(* and differs from the RefreshToken's; its 'exp' differs from the          *)
(* RefreshToken's when the RefreshToken was made without a string and its   *)
(* 'exp' is the one its constructor set.                                    *)
C10_DerivedClaims ==
    res.op = "access_token" =>
        /\ Copied
        /\ Differs("jti")
        /\ acc[1].payload["jti"] = nextJti - 1
        /\ acc[1].payload[TOKEN_TYPE_CLAIM] = "access"
        /\ (/\ TOKEN_TYPE_CLAIM \in DOMAIN tok[1].payload
            /\ tok[1].payload[TOKEN_TYPE_CLAIM] = "refresh")
           => Differs(TOKEN_TYPE_CLAIM)
        /\ (/\ tok[1].token = <<>>
            /\ "exp" \in DOMAIN tok[1].payload
            /\ tok[1].payload["exp"] = ExpFrom(tok[1].current_time, REFRESH_TOKEN_LIFETIME))
           => Differs("exp")

C10_Witness ==
    /\ res.op = "access_token"
    /\ "some_value" \in DOMAIN tok[1].payload
    /\ tok[1].token = <<>>
    /\ "exp" \in DOMAIN tok[1].payload
    /\ tok[1].payload["exp"] = ExpFrom(tok[1].current_time, REFRESH_TOKEN_LIFETIME)

----------------------------------------------------------------------------
(* C11: cls() returns an instance whose payload has exactly the type claim, *)
(* 'jti' and 'exp', the type claim being the class's tag and 'exp' being    *)
(* current_time + the class's lifetime; a SlidingToken has one claim more,  *)
(* refresh_exp = current_time + SLIDING_TOKEN_REFRESH_LIFETIME.             *)

LifetimeOf ==
    [AccessToken |-> ACCESS_TOKEN_LIFETIME, RefreshToken |-> REFRESH_TOKEN_LIFETIME,
     SlidingToken |-> SLIDING_TOKEN_LIFETIME]

FreshClaims(cls) ==
    {TOKEN_TYPE_CLAIM, "jti", "exp"}
        \cup (IF cls = "SlidingToken" THEN {SLIDING_TOKEN_REFRESH_EXP_CLAIM} ELSE {})

IsFreshPayload(p, cls, t) ==
    /\ DOMAIN p = FreshClaims(cls)
    /\ p[TOKEN_TYPE_CLAIM] = Tag[cls]
    /\ p["exp"] = ExpFrom(t, LifetimeOf[cls])
    /\ cls = "SlidingToken" =>
           p[SLIDING_TOKEN_REFRESH_EXP_CLAIM] = ExpFrom(t, SLIDING_TOKEN_REFRESH_LIFETIME)

----------------------------------------------------------------------------
(* C12: with the blacklist app installed, a token that RefreshToken.for_user *)
(* or SlidingToken.for_user returns has an OutstandingToken row with the    *)
(* given user, the token's jti, the encoding of its payload as returned,    *)
(* created_at = its current_time and expires_at = its 'exp'; when the row   *)
(* cannot be written no token is returned.                                  *)

ForUserIssued == res.op = "for_user" /\ revocation /\ res.args[1] \in RevocationAware

C12_IssuedTokenIsOutstanding ==
    ForUserIssued =>
        /\ tok # <<>> =>
               \E row \in outstanding :
                   /\ row.user = res.args[2]
                   /\ row.jti = tok[1].payload["jti"]
                   /\ row.token = backend_encode(tok[1].payload)
                   /\ row.created_at = tok[1].current_time
                   /\ row.expires_at = tok[1].payload["exp"] * TicksPerSecond
        /\ tok = <<>> <=> res.err # OK

C12_Witness ==
    /\ ForUserIssued
    /\ tok # <<>>
    /\ tok[1].cls = "SlidingToken"
    /\ tok[1].current_time = 1
    /\ \E row \in outstanding : row.user = "alice" /\ row.expires_at = 4

----------------------------------------------------------------------------
(* C13: cls.for_user(user) returns a new token of the class whose user-id   *)
(* claim is the user's id when that is an int and its text when it is not;  *)
(* without that claim the payload is that of a new token of the class.      *)

C13_UserIdClaim ==
    (res.op = "for_user" /\ res.err = OK) =>
        LET v == user_id_field(res.args[2])
            p == tok[1].payload
        IN  /\ tok # <<>>
            /\ tok[1].cls = res.args[1]
            /\ tok[1].token = <<>>
            /\ USER_ID_CLAIM \in DOMAIN p
            /\ v.type = "int" => p[USER_ID_CLAIM] = v
            /\ v.type # "int" => p[USER_ID_CLAIM] = [type |-> "str", repr |-> v.repr]
            /\ IsFreshPayload(DelItem(p, USER_ID_CLAIM), tok[1].cls, tok[1].current_time)

C13_Witness ==
    /\ res.op = "for_user"
    /\ res.args[2] = "u42"
    /\ tok # <<>>
    /\ tok[1].cls = "AccessToken"
    /\ tok[1].payload[USER_ID_CLAIM] = [type |-> "int", repr |-> "42"]

----------------------------------------------------------------------------
(* C14: cls() and cls(token) of a class that lacks a type or a lifetime     *)
(* raise before anything else is done ...                                   *)

Constructing == res.op \in {"construct", "decode"}
ConfigErrorMessage == "Cannot create token with no type or lifetime"

(* ... as claimed: a class without a non-empty type and a positive lifetime *)
(* gets a ConfigurationError                                                *)
WellDefined(cls) ==
    /\ token_type(cls) # <<>> /\ token_type(cls)[1] # ""
    /\ lifetime(cls) # <<>> /\ lifetime(cls)[1] > 0

C14_ConfigurationErrorFirst ==
    Constructing =>
        IF WellDefined(res.args[1])
        THEN res.op = "construct" => res.err = OK
        ELSE /\ tok = <<>>
             /\ res.err = [kind |-> "ConfigurationError", msg |-> ConfigErrorMessage]
             /\ res.steps = <<"config">>

(* ... as amended: a class whose token_type or lifetime is None gets a      *)
(* TokenError with that message, the clock, the backend, uuid4 and the      *)
(* blacklist being left alone; a class that sets both, whatever their       *)
(* values, constructs a new token.                                          *)
Configured(cls) == token_type(cls) # <<>> /\ lifetime(cls) # <<>>

C14_UnconfiguredClassIsRefusedFirst ==
    Constructing =>
        IF Configured(res.args[1])
        THEN /\ res.steps # <<"config">>
             /\ res.op = "construct" => res.err = OK /\ tok # <<>>
        ELSE /\ tok = <<>>
             /\ res.err = TokenError(ConfigErrorMessage)
             /\ res.steps = <<"config">>

C14_Witness ==
    /\ res.op = "decode"
    /\ revocation
    /\ res.args[1] = "BareBlacklistToken"
    /\ ~SignatureValid(res.args[2])
    /\ res.err = TokenError(ConfigErrorMessage)

----------------------------------------------------------------------------
(* C15: two threads that run cls(token) on the same string ...              *)

BothDone == callers # <<>> /\ \A c \in Threads : callers[c].pc = "done"

----------------------------------------------------------------------------
(* C16: with the blacklist app installed, a database failure in the lookup  *)
(* of cls(token) or in the row creation of cls.for_user(user) reaches the   *)
(* caller as the database's own error: no token is returned, the error is   *)
(* no TokenError, and the call is made once.                                *)

Occurrences(steps, x) == Cardinality({i \in 1..Len(steps) : steps[i] = x})

LookupReached(s, cls, t) ==
    /\ revocation
    /\ cls \in RevocationAware
    /\ Trustworthy(s, cls, t)
    /\ ValueOf(s, "jti") >= 1

C16_LedgerFailurePropagates ==
    [][/\ (res'.op = "decode" /\ LookupReached(res'.args[2], res'.args[1], now')) =>
              (ConstructDecode(res'.args[1], res'.args[2], FALSE, now' - now) =>
                   /\ tok' = <<>>
                   /\ res'.err.kind = "DatabaseError"
                   /\ Occurrences(res'.steps, "check_blacklist") = 1)
       /\ (res'.op = "for_user" /\ revocation /\ res'.args[1] \in RevocationAware
               /\ ~res'.args[3] /\ nextJti' # nextJti) =>
              /\ tok' = <<>>
              /\ res'.err.kind = "DatabaseError"
              /\ outstanding' = outstanding
              /\ Occurrences(res'.steps, "create") = 1]_vars

C16_Witness ==
    /\ res.op = "decode"
    /\ LookupReached(res.args[2], res.args[1], now)
    /\ ValueOf(res.args[2], "jti") \notin blacklist
    /\ res.err.kind = "DatabaseError"
    /\ tok = <<>>
    /\ \E row \in outstanding : row.jti = ValueOf(res.args[2], "jti")

----------------------------------------------------------------------------
(* C17: cls(token) validates in one order and stops at the first failure:   *)
(* backend, 'exp' present, 'exp' in the future, type present, type equal,   *)
(* 'jti' present and then, for the BlacklistMixin classes with the app      *)
(* installed, the blacklist; the error is that of the first step that       *)
(* fails, and the blacklist is reached only when all the others passed.     *)

ValidationOrder ==
    <<"config", "time", "backend", "exp_present", "exp_future", "type_present", "type_equal",
      "jti_present", "check_blacklist">>

Violations(s, cls, t) ==
    (IF ~SignatureValid(s) THEN {"backend"} ELSE {})
    \cup (IF ~Carries(s, "exp") THEN {"exp_present"}
          ELSE IF ~InFuture(ValueOf(s, "exp"), t) THEN {"exp_future"} ELSE {})
    \cup (IF ~Carries(s, TOKEN_TYPE_CLAIM) THEN {"type_present"}
          ELSE IF ValueOf(s, TOKEN_TYPE_CLAIM) # Tag[cls] THEN {"type_equal"} ELSE {})
    \cup (IF ~Carries(s, "jti") THEN {"jti_present"} ELSE {})

ErrorOfStep(x) ==
    CASE x = "backend" -> TokenError("Token is invalid or expired")
      [] x = "exp_present" -> TokenError("Token has no 'exp' claim")
      [] x = "exp_future" -> TokenError("Token 'exp' claim has expired")
      [] x = "type_present" -> TokenError("Token has no type")
      [] x = "type_equal" -> TokenError("Token has wrong type")
      [] x = "jti_present" -> TokenError("Token has no id")

C17_FirstViolationIsReported ==
    res.op = "decode" =>
        LET cls == res.args[1]
            s == res.args[2]
            bad == Violations(s, cls, now)
            n == Len(res.steps)
        IN  /\ n <= Len(ValidationOrder)
            /\ res.steps = SubSeq(ValidationOrder, 1, n)
            /\ bad # {} =>
                   /\ res.steps[n] \in bad
                   /\ \A i \in 1..(n - 1) : res.steps[i] \notin bad
                   /\ res.err = ErrorOfStep(res.steps[n])
            /\ res.steps[n] = "check_blacklist" <=>
                   (bad = {} /\ revocation /\ cls \in RevocationAware)

C17_Witness ==
    /\ res.op = "decode"
    /\ Violations(res.args[2], res.args[1], now) = {"exp_future", "type_equal", "jti_present"}
    /\ revocation
    /\ res.args[1] = "SlidingToken"
    /\ res.err = TokenError("Token 'exp' claim has expired")

----------------------------------------------------------------------------
(* C18: refresh.access_token changes nothing of the RefreshToken (payload,  *)
(* current_time, the string it was made from, and so str(refresh)) and      *)
(* writes no BlacklistedToken and no OutstandingToken row, at every call.   *)

Derived == res'.op = "access_token" /\ nextJti' # nextJti

----------------------------------------------------------------------------
(* C19: the payload of a token holds the type claim, 'jti' and 'exp' ...    *)

HasRequired(i) == Required \subseteq DOMAIN i.payload

(* ... as claimed: in every state after construction, whatever the caller   *)
(* has set or deleted since                                                 *)
C19_RequiredClaimsAlways ==
    tok # <<>> => HasRequired(tok[1])

(* ... as amended: when the constructor returns, and each of them from then *)
(* on until the caller deletes it: token[key] = value and set_exp remove no *)
(* claim, del token[key] removes the claim key and no other.                *)
C19_RequiredClaimsUntilDeleted ==
    [][/\ (res'.op \in {"construct", "decode"} /\ tok' # <<>>) => HasRequired(tok'[1])
       /\ (tok # <<>> /\ tok' # <<>> /\ res'.op \in {"setitem", "set_exp", "delitem"}) =>
              \A k \in DOMAIN tok[1].payload :
                  k \in DOMAIN tok'[1].payload <=> ~(res'.op = "delitem" /\ res'.args = <<k>>)
      ]_vars

C19_Witness ==
    /\ res.op = "delitem"
    /\ res.args = <<"jti">>
    /\ tok # <<>>
    /\ DOMAIN tok[1].payload = {TOKEN_TYPE_CLAIM, "exp", SLIDING_TOKEN_REFRESH_EXP_CLAIM}

----------------------------------------------------------------------------
(* C20: AccessToken(token) does not look at the blacklist: it returns       *)
(* exactly when the string is good for AccessToken at the time of the call, *)
(* whatever rows the blacklist holds, the row of its own jti and of the     *)
(* RefreshToken it came from included; and a RefreshToken instance can      *)
(* give an access token whether or not its jti has a row by now.            *)

C20_AccessTokenIgnoresBlacklist ==
    /\ (res.op = "decode" /\ res.args[1] = "AccessToken") =>
           /\ tok # <<>> <=> Trustworthy(res.args[2], "AccessToken", now)
           /\ tok # <<>> <=> res.err = OK
           /\ Occurrences(res.steps, "check_blacklist") = 0
    /\ (tok # <<>> /\ tok[1].cls = "RefreshToken" /\ nextJti <= MaxJti) =>
           ENABLED AccessTokenOp(0)

C20_Witness ==
    /\ res.op = "decode"
    /\ res.args[1] = "AccessToken"
    /\ revocation
    /\ tok # <<>>
    /\ wire[1].cls = "AccessToken"
    /\ blacklist = {1, tok[1].payload["jti"]}
    /\ tok[1].payload["jti"] = 2

====
